---- MODULE Spec2Model ----
(***************************************************************************)
(* Model of the pv204_project front end: the proof-of-work registration    *)
(* form (Register), the login form (Login) and the session handling of the *)
(* application shell (App).                                                *)
(*                                                                         *)
(* Strings are sequences of one-character strings; a digest is the 64      *)
(* lower-case hex characters of SHA-256, computed here bit-exactly on      *)
(* 32-bit words held as <<high 16 bits, low 16 bits>>.                     *)
(***************************************************************************)
EXTENDS Integers, Sequences, FiniteSets, TLC

VARIABLES
    authToken,      \* localStorage item 'authToken' (NoToken when absent)
    isLoggedIn,     \* App state
    showRegister,   \* App state
    userData,       \* App state (NoUser is null)
    appLoading,     \* App state `loading`
    checkAuthPc,    \* position of the checkAuth effect: "start", "await", "done"
    checkAuthSent,  \* the session checkAuth found when it called the Session
                    \* Service, while it awaits the answer (NoCall otherwise)
    loginForm,      \* state of the mounted Login component
    logins,         \* Login.handleSubmit / App.handleLogin runs awaiting a response
    regForm,        \* state of the mounted Register component
    regs,           \* Register.handleSubmit runs awaiting a response or a digest
    submits,        \* history: user-triggered submits, per form
    calls,          \* history: service calls made, per service
    lastDone        \* history: summary of the handler run that finished last

(***************************************************************************)
(* Hash engine: crypto.subtle.digest('SHA-256', ...) followed by the hex   *)
(* encoding of Register.js.                                                *)
(***************************************************************************)
Half == 65536

RECURSIVE Pow2(_)
Pow2(n) == IF n = 0 THEN 1 ELSE 2 * Pow2(n - 1)

\* bitwise operations on n-bit numbers
RECURSIVE BitXor(_, _, _)
BitXor(a, b, n) ==
    IF n = 0 THEN 0
    ELSE (((a % 2) + (b % 2)) % 2) + 2 * BitXor(a \div 2, b \div 2, n - 1)

RECURSIVE BitAnd(_, _, _)
BitAnd(a, b, n) ==
    IF n = 0 THEN 0
    ELSE ((a % 2) * (b % 2)) + 2 * BitAnd(a \div 2, b \div 2, n - 1)

\* the same on 4-bit digits, tabulated
XorTable == [ a \in 0..15 |-> [ b \in 0..15 |-> BitXor(a, b, 4) ] ]
AndTable == [ a \in 0..15 |-> [ b \in 0..15 |-> BitAnd(a, b, 4) ] ]

Xor16(a, b) ==
    XorTable[a % 16][b % 16]
      + 16 * XorTable[(a \div 16) % 16][(b \div 16) % 16]
      + 256 * XorTable[(a \div 256) % 16][(b \div 256) % 16]
      + 4096 * XorTable[a \div 4096][b \div 4096]

And16(a, b) ==
    AndTable[a % 16][b % 16]
      + 16 * AndTable[(a \div 16) % 16][(b \div 16) % 16]
      + 256 * AndTable[(a \div 256) % 16][(b \div 256) % 16]
      + 4096 * AndTable[a \div 4096][b \div 4096]

\* 32-bit words as << high half, low half >>
WXor(x, y) == << Xor16(x[1], y[1]), Xor16(x[2], y[2]) >>
WAnd(x, y) == << And16(x[1], y[1]), And16(x[2], y[2]) >>
WNot(x) == << (Half - 1) - x[1], (Half - 1) - x[2] >>
WAdd(x, y) ==
    LET lo == x[2] + y[2]
        hi == x[1] + y[1] + (lo \div Half)
    IN  << hi % Half, lo % Half >>

\* rotate right by n, 0 <= n < 32
Rotr(x, n) ==
    LET y == IF n >= 16 THEN << x[2], x[1] >> ELSE x
        k == IF n >= 16 THEN n - 16 ELSE n
        p == Pow2(k)
        q == Pow2(16 - k)
    IN  IF k = 0 THEN y
        ELSE << (y[1] \div p) + (y[2] % p) * q, (y[2] \div p) + (y[1] % p) * q >>

\* shift right by n, 0 < n < 16
Shr(x, n) ==
    LET p == Pow2(n)
        q == Pow2(16 - n)
    IN  << x[1] \div p, (x[2] \div p) + (x[1] % p) * q >>

Sha256K == <<
    <<17034, 12184>>, <<28983, 17553>>, <<46528, 64463>>, <<59829, 56229>>,
    <<14678, 49755>>, <<23025, 4593>>, <<37439, 33444>>, <<43804, 24277>>,
    <<55303, 43672>>, <<4739, 23297>>, <<9265, 34238>>, <<21772, 32195>>,
    <<29374, 23924>>, <<32990, 45566>>, <<39900, 1703>>, <<49563, 61812>>,
    <<58523, 27073>>, <<61374, 18310>>, <<4033, 40390>>, <<9228, 41420>>,
    <<11753, 11375>>, <<19060, 33962>>, <<23728, 43484>>, <<30457, 35034>>,
    <<38974, 20818>>, <<43057, 50797>>, <<45059, 10184>>, <<48985, 32711>>,
    <<50912, 3059>>, <<54695, 37191>>, <<1738, 25425>>, <<5161, 10599>>,
    <<10167, 2693>>, <<11803, 8504>>, <<19756, 28156>>, <<21304, 3347>>,
    <<25866, 29524>>, <<30314, 2747>>, <<33218, 51502>>, <<37490, 11397>>,
    <<41663, 59553>>, <<43034, 26187>>, <<49739, 35696>>, <<51052, 20899>>,
    <<53650, 59417>>, <<54937, 1572>>, <<62478, 13701>>, <<4202, 41072>>,
    <<6564, 49430>>, <<7735, 27656>>, <<10056, 30540>>, <<13488, 48309>>,
    <<14620, 3251>>, <<20184, 43594>>, <<23452, 51791>>, <<26670, 28659>>,
    <<29839, 33518>>, <<30885, 25455>>, <<33992, 30740>>, <<36039, 520>>,
    <<37054, 65530>>, <<42064, 27883>>, <<48889, 41975>>, <<50801, 30962>> >>

Sha256H0 == <<
    <<27145, 58983>>, <<47975, 44677>>, <<15470, 62322>>, <<42319, 62778>>,
    <<20750, 21119>>, <<39685, 26764>>, <<8067, 55723>>, <<23520, 52505>> >>

BigSigma0(x) == WXor(WXor(Rotr(x, 2), Rotr(x, 13)), Rotr(x, 22))
BigSigma1(x) == WXor(WXor(Rotr(x, 6), Rotr(x, 11)), Rotr(x, 25))
SmallSigma0(x) == WXor(WXor(Rotr(x, 7), Rotr(x, 18)), Shr(x, 3))
SmallSigma1(x) == WXor(WXor(Rotr(x, 17), Rotr(x, 19)), Shr(x, 10))
Ch(x, y, z) == WXor(WAnd(x, y), WAnd(WNot(x), z))
Maj(x, y, z) == WXor(WXor(WAnd(x, y), WAnd(x, z)), WAnd(y, z))

\* message padding: 0x80, zeros up to 56 mod 64, then the bit length in 8 bytes
RECURSIVE Zeros(_)
Zeros(n) == IF n = 0 THEN << >> ELSE << 0 >> \o Zeros(n - 1)

Sha256Pad(bytes) ==
    LET len == Len(bytes)
        z == ((119 - (len % 64)) % 64)
        bits == len * 8
    IN  bytes \o << 128 >> \o Zeros(z) \o Zeros(4)
          \o << (bits \div 16777216) % 256, (bits \div 65536) % 256,
                (bits \div 256) % 256, bits % 256 >>

\* the 16 big-endian words of block number b (from 0) of the padded message
BlockWords(padded, b) ==
    [ i \in 1..16 |->
        LET o == 64 * b + 4 * (i - 1)
        IN  << padded[o + 1] * 256 + padded[o + 2],
               padded[o + 3] * 256 + padded[o + 4] >> ]

RECURSIVE Schedule(_)
Schedule(w) ==
    IF Len(w) = 64 THEN w
    ELSE LET t == Len(w) + 1
         IN  Schedule(Append(w,
                 WAdd(WAdd(SmallSigma1(w[t - 2]), w[t - 7]),
                      WAdd(SmallSigma0(w[t - 15]), w[t - 16]))))

\* one round of the compression function on the working variables a..h
Round(s, k, wt) ==
    LET t1 == WAdd(WAdd(WAdd(s[8], BigSigma1(s[5])), Ch(s[5], s[6], s[7])),
                   WAdd(k, wt))
        t2 == WAdd(BigSigma0(s[1]), Maj(s[1], s[2], s[3]))
    IN  << WAdd(t1, t2), s[1], s[2], s[3], WAdd(s[4], t1), s[5], s[6], s[7] >>

\* rounds t..64; the working variables are computed before the next round
\* is entered, so that the evaluation stays shallow
RECURSIVE Rounds(_, _, _)
Rounds(s, w, t) ==
    IF t > 64 THEN s
    ELSE LET n == Round(s, Sha256K[t], w[t])
         IN  IF Len(n) = 8 THEN Rounds(n, w, t + 1) ELSE n

Compress(h, words) ==
    LET s == Rounds(h, Schedule(words), 1)
    IN  [ i \in 1..8 |-> WAdd(h[i], s[i]) ]

RECURSIVE Blocks(_, _, _)
Blocks(h, padded, b) ==
    IF 64 * b >= Len(padded) THEN h
    ELSE Blocks(Compress(h, BlockWords(padded, b)), padded, b + 1)

\* the 32 bytes of the digest
Sha256(bytes) ==
    LET h == Blocks(Sha256H0, Sha256Pad(bytes), 0)
    IN  [ i \in 1..32 |->
            LET wd == h[((i - 1) \div 4) + 1]
                k == (i - 1) % 4
            IN  IF k = 0 THEN wd[1] \div 256
                ELSE IF k = 1 THEN wd[1] % 256
                ELSE IF k = 2 THEN wd[2] \div 256
                ELSE wd[2] % 256 ]

HexDigits == << "0", "1", "2", "3", "4", "5", "6", "7",
                "8", "9", "a", "b", "c", "d", "e", "f" >>

\* Number.prototype.toString(16) of a byte: no leading zero
ByteToString16(b) ==
    IF b < 16 THEN << HexDigits[b + 1] >>
    ELSE << HexDigits[(b \div 16) + 1], HexDigits[(b % 16) + 1] >>

\* String.prototype.padStart(2, '0')
PadStart2(s) == IF Len(s) < 2 THEN << "0" >> \o s ELSE s

\* hashArray.map(b => b.toString(16).padStart(2, '0')).join('')
RECURSIVE HexJoin(_, _)
HexJoin(bytes, i) ==
    IF i > Len(bytes) THEN << >>
    ELSE PadStart2(ByteToString16(bytes[i])) \o HexJoin(bytes, i + 1)

\* TextEncoder.encode on the characters the model uses (ASCII)
CharCode ==
    ("0" :> 48) @@ ("1" :> 49) @@ ("2" :> 50) @@ ("3" :> 51) @@ ("4" :> 52) @@
    ("5" :> 53) @@ ("6" :> 54) @@ ("7" :> 55) @@ ("8" :> 56) @@ ("9" :> 57) @@
    ("a" :> 97) @@ ("b" :> 98) @@ ("c" :> 99) @@ ("d" :> 100) @@ ("e" :> 101) @@
    ("f" :> 102) @@ ("x" :> 120)

TextEncode(s) == [ i \in 1..Len(s) |-> CharCode[s[i]] ]

\* Number.prototype.toString() of a non-negative integer
RECURSIVE NumberToString(_)
NumberToString(n) ==
    IF n < 10 THEN << HexDigits[n + 1] >>
    ELSE NumberToString(n \div 10) \o << HexDigits[(n % 10) + 1] >>

\* the digest of `${challenge}${nonce}` as Register.js computes it
Digest(challenge, nonce) ==
    HexJoin(Sha256(TextEncode(challenge \o NumberToString(nonce))), 1)

\* '0'.repeat(difficulty)
RECURSIVE Repeat0(_)
Repeat0(n) == IF n = 0 THEN << >> ELSE << "0" >> \o Repeat0(n - 1)

\* String.prototype.startsWith
StartsWith(s, prefix) ==
    /\ Len(prefix) <= Len(s)
    /\ \A i \in 1..Len(prefix) : s[i] = prefix[i]

(***************************************************************************)
(* Bounds of the model and the values the environment (user and services)  *)
(* may supply.                                                             *)
(***************************************************************************)
MaxNonce == 3            \* the solver loop is followed up to this nonce
MaxDifficulty == 1       \* difficulties issued: 0..MaxDifficulty
MaxSubmits == 2          \* form submits (Login or Register) the user makes in one run
MaxLiveSubmits == 1      \* Register submits in the runs checked for termination

\* challenges the Challenge Service may issue
ChallengeList == << << "8", "5", "5" >>, << "d", "b" >> >>
Challenges == { ChallengeList[i] : i \in 1..Len(ChallengeList) }
ChallengeIndex(c) == CHOOSE i \in 1..Len(ChallengeList) : ChallengeList[i] = c

\* the bearer token the Challenge Service issues with a challenge
IssuedToken(c) == << "r" >> \o c

\* digests of challenge || nonce for the nonces the model follows
DigestTable ==
    [ i \in 1..Len(ChallengeList) |->
        [ n \in 0..MaxNonce |-> Digest(ChallengeList[i], n) ] ]

\* await crypto.subtle.digest('SHA-256', encode(`${challenge}${nonce}`)), hex encoded
SubtleDigest(c, n) == DigestTable[ChallengeIndex(c)][n]

\* localStorage.getItem of an absent key, and an absent detail field
NoToken == "null"
NoDetail == "undefined"
\* the null of useState(null): a record, as the values that replace it are
NoUser == [ null |-> TRUE ]
NoResult == [ null |-> TRUE ]
\* checkAuth is not awaiting the Session Service
NoCall == [ null |-> TRUE ]

AccessTokens == { "tokA", "tokB" }
\* what localStorage may hold when the page loads
StoredAtLoad == { NoToken, "tokA" }
Details == { "", "Username already registered" }
Names == { "alice" }
Passwords == { "secret" }

\* the profile the Session Service returns for a token
ProfileFor(tok) == [ username |-> IF tok = "tokA" THEN "alice" ELSE "bob" ]

(***************************************************************************)
(* Component state                                                         *)
(***************************************************************************)
FreshLoginForm == [ username |-> "", password |-> "", error |-> "" ]
FreshRegForm ==
    [ username |-> "", password |-> "", loading |-> FALSE, result |-> NoResult ]

\* what App renders
LoginMounted == ~appLoading /\ ~isLoggedIn /\ ~showRegister
RegisterMounted == ~appLoading /\ ~isLoggedIn /\ showRegister

Session == [ token |-> authToken, loggedIn |-> isLoggedIn, user |-> userData ]
SessionAfter ==
    [ token |-> authToken', loggedIn |-> isLoggedIn', user |-> userData' ]

\* the runs of an unmounted component go on; their state updates are dropped
Orphan(runs) == [ i \in 1..Len(runs) |-> [ runs[i] EXCEPT !.live = FALSE ] ]

RemoveAt(runs, i) == SubSeq(runs, 1, i - 1) \o SubSeq(runs, i + 1, Len(runs))

\* React re-render after App state became (loggedIn, showReg): a form that is
\* no longer rendered is unmounted and its state is lost
Render(loggedIn, showReg, lf, lg, rf, rg) ==
    /\ loginForm' = IF ~loggedIn /\ ~showReg THEN lf ELSE FreshLoginForm
    /\ logins' = IF ~loggedIn /\ ~showReg THEN lg ELSE Orphan(lg)
    /\ regForm' = IF ~loggedIn /\ showReg THEN rf ELSE FreshRegForm
    /\ regs' = IF ~loggedIn /\ showReg THEN rg ELSE Orphan(rg)

NoneDone == [ kind |-> "none" ]

Init ==
    /\ authToken \in StoredAtLoad
    /\ isLoggedIn = FALSE
    /\ showRegister = FALSE
    /\ userData = NoUser
    /\ appLoading = TRUE
    /\ checkAuthPc = "start"
    /\ checkAuthSent = NoCall
    /\ loginForm = FreshLoginForm
    /\ logins = << >>
    /\ regForm = FreshRegForm
    /\ regs = << >>
    /\ submits = [ login |-> 0, register |-> 0 ]
    /\ calls = [ getChallenge |-> 0, registerUser |-> 0, loginUser |-> 0,
                 getCurrentUser |-> 0 ]
    /\ lastDone = NoneDone

(***************************************************************************)
(* App: checkAuth (the mount effect), handleLogout, the view toggle        *)
(***************************************************************************)
\* faulty variant of CheckAuthStart: the `if (token)` test is missing
CheckAuthStartAlwaysCalls ==
    /\ checkAuthPc = "start"
    /\ checkAuthPc' = "await"
    /\ checkAuthSent' = Session
    /\ calls' = [ calls EXCEPT !.getCurrentUser = @ + 1 ]
    /\ UNCHANGED << appLoading, lastDone >>
    /\ UNCHANGED << authToken, isLoggedIn, showRegister, userData, loginForm,
                    logins, regForm, regs, submits >>

\* checkAuth up to its first await
CheckAuthStart ==
    /\ checkAuthPc = "start"
    /\ IF authToken # NoToken
       THEN /\ checkAuthPc' = "await"
            /\ checkAuthSent' = Session
            /\ calls' = [ calls EXCEPT !.getCurrentUser = @ + 1 ]
            /\ UNCHANGED << appLoading, lastDone >>
       ELSE /\ checkAuthPc' = "done"
            /\ checkAuthSent' = NoCall
            /\ appLoading' = FALSE
            /\ lastDone' = [ kind |-> "restore", outcome |-> "noToken",
                             pre |-> Session, calls |-> 0,
                             post |-> [ token |-> authToken, loggedIn |-> isLoggedIn,
                                        user |-> userData ] ]
            /\ UNCHANGED calls
    /\ UNCHANGED << authToken, isLoggedIn, showRegister, userData, loginForm,
                    logins, regForm, regs, submits >>

\* the Session Service answers the restore with the profile of the token sent
CheckAuthOk ==
    /\ checkAuthPc = "await"
    /\ userData' = ProfileFor(checkAuthSent.token)
    /\ isLoggedIn' = TRUE
    /\ appLoading' = FALSE
    /\ checkAuthPc' = "done"
    /\ checkAuthSent' = NoCall
    /\ UNCHANGED << authToken, showRegister, loginForm, logins, regForm, regs,
                    submits, calls >>
    /\ lastDone' = [ kind |-> "restore", outcome |-> "ok", pre |-> checkAuthSent,
                     calls |-> 1,
                     post |-> SessionAfter ]

\* faulty variant of CheckAuthCatchToken: the catch block forgets removeItem
CheckAuthCatchKeepsToken == authToken

\* the token in storage after the catch block of checkAuth
CheckAuthCatchToken == NoToken

\* the Session Service rejects the restore (401, network failure, ...)
CheckAuthFail ==
    /\ checkAuthPc = "await"
    /\ authToken' = CheckAuthCatchToken
    /\ appLoading' = FALSE
    /\ checkAuthPc' = "done"
    /\ checkAuthSent' = NoCall
    /\ UNCHANGED << isLoggedIn, showRegister, userData, loginForm, logins,
                    regForm, regs, submits, calls >>
    /\ lastDone' = [ kind |-> "restore", outcome |-> "rejected", pre |-> checkAuthSent,
                     calls |-> 1,
                     post |-> SessionAfter ]

\* faulty variant of LogoutBody: localStorage.removeItem is forgotten
LogoutBodyKeepsToken ==
    /\ authToken' = authToken
    /\ isLoggedIn' = FALSE
    /\ userData' = NoUser
    /\ Render(FALSE, showRegister, loginForm, logins, regForm, regs)
    /\ UNCHANGED << showRegister, appLoading, checkAuthPc, checkAuthSent, submits, calls >>
    /\ lastDone' = [ kind |-> "logout", pre |-> Session,
                     loginSubmits |-> submits.login,
                     again |-> (lastDone.kind = "logout" /\ lastDone.post = Session),
                     post |-> SessionAfter ]

\* the body of handleLogout: removeItem('authToken'), setIsLoggedIn(false),
\* setUserData(null), and the re-render. `again` records that the call
\* directly follows another logout, with the session as that one left it.
LogoutBody ==
    /\ authToken' = NoToken
    /\ isLoggedIn' = FALSE
    /\ userData' = NoUser
    /\ Render(FALSE, showRegister, loginForm, logins, regForm, regs)
    /\ UNCHANGED << showRegister, appLoading, checkAuthPc, checkAuthSent, submits, calls >>
    /\ lastDone' = [ kind |-> "logout", pre |-> Session,
                     loginSubmits |-> submits.login,
                     again |-> (lastDone.kind = "logout" /\ lastDone.post = Session),
                     post |-> SessionAfter ]

\* the Logout button, rendered while logged in
HandleLogout ==
    /\ ~appLoading /\ isLoggedIn
    /\ LogoutBody

\* handleLogout called as the function it is (the logout() of the Session
\* Manager), in whatever state App is: the function has no guard of its own
LogoutCall == LogoutBody

\* the "Register" / "Login" buttons under the forms
SetShowRegister(b) ==
    /\ ~appLoading /\ ~isLoggedIn
    /\ showRegister = ~b
    /\ showRegister' = b
    /\ Render(isLoggedIn, b, loginForm, logins, regForm, regs)
    /\ UNCHANGED << authToken, isLoggedIn, userData, appLoading, checkAuthPc, checkAuthSent,
                    submits, calls, lastDone >>

(***************************************************************************)
(* Login: the form fields and handleSubmit, followed by App.handleLogin.    *)
(* onChange fires when the value of an input changes.                      *)
(***************************************************************************)
LoginSetUsername(v) ==
    /\ LoginMounted
    /\ loginForm.username # v
    /\ loginForm' = [ loginForm EXCEPT !.username = v ]
    /\ UNCHANGED << authToken, isLoggedIn, showRegister, userData, appLoading,
                    checkAuthPc, checkAuthSent, logins, regForm, regs, submits, calls, lastDone >>

LoginSetPassword(v) ==
    /\ LoginMounted
    /\ loginForm.password # v
    /\ loginForm' = [ loginForm EXCEPT !.password = v ]
    /\ UNCHANGED << authToken, isLoggedIn, showRegister, userData, appLoading,
                    checkAuthPc, checkAuthSent, logins, regForm, regs, submits, calls, lastDone >>

\* what disables the Login submit button: nothing (<button type="submit">)
LoginSubmitDisabled == FALSE

\* handleSubmit up to the await of api.loginUser; both inputs are `required`
LoginSubmit ==
    /\ LoginMounted
    /\ ~LoginSubmitDisabled
    /\ loginForm.username # "" /\ loginForm.password # ""
    /\ submits.login + submits.register < MaxSubmits
    /\ submits' = [ submits EXCEPT !.login = @ + 1 ]
    /\ calls' = [ calls EXCEPT !.loginUser = @ + 1 ]
    /\ loginForm' = [ loginForm EXCEPT !.error = "" ]
    /\ logins' = Append(logins,
           [ phase |-> "loginUser", live |-> TRUE,
             request |-> [ username |-> loginForm.username,
                           password |-> loginForm.password ],
             access |-> NoToken, pre |-> Session,
             nLoginUser |-> 1, nGetCurrentUser |-> 0 ])
    /\ UNCHANGED << authToken, isLoggedIn, showRegister, userData, appLoading,
                    checkAuthPc, checkAuthSent, regForm, regs, lastDone >>

\* the Login Service answers with { access_token }: the token is stored and
\* onLoginSuccess (App.handleLogin) runs up to its await of api.getCurrentUser
LoginUserOk(i, tok) ==
    /\ logins[i].phase = "loginUser"
    /\ authToken' = tok
    /\ calls' = [ calls EXCEPT !.getCurrentUser = @ + 1 ]
    /\ logins' = [ logins EXCEPT ![i] =
           [ @ EXCEPT !.phase = "getCurrentUser", !.access = tok,
                      !.nGetCurrentUser = @ + 1 ] ]
    /\ UNCHANGED << isLoggedIn, showRegister, userData, appLoading, checkAuthPc, checkAuthSent,
                    loginForm, regForm, regs, submits, lastDone >>

\* 'Login failed: ' + (error.response?.data?.detail || 'Unknown error')
LoginErrorMessage(detail) ==
    "Login failed: " \o (IF detail \notin { NoDetail, "" } THEN detail
                         ELSE "Unknown error")

\* the Login Service call fails; detail is the server's detail, if any
LoginUserFail(i, detail) ==
    /\ logins[i].phase = "loginUser"
    /\ loginForm' = IF logins[i].live
                    THEN [ loginForm EXCEPT !.error = LoginErrorMessage(detail) ]
                    ELSE loginForm
    /\ logins' = RemoveAt(logins, i)
    /\ lastDone' = [ kind |-> "login", outcome |-> "loginUserFailed",
                     pre |-> logins[i].pre, access |-> NoToken, profile |-> NoUser,
                     live |-> logins[i].live, error |-> loginForm'.error,
                     nLoginUser |-> logins[i].nLoginUser,
                     nGetCurrentUser |-> logins[i].nGetCurrentUser,
                     post |-> Session ]
    /\ UNCHANGED << authToken, isLoggedIn, showRegister, userData, appLoading,
                    checkAuthPc, checkAuthSent, regForm, regs, submits, calls >>

\* handleLogin: the Session Service answers with the profile of the token sent
GetCurrentUserOk(i) ==
    /\ logins[i].phase = "getCurrentUser"
    /\ userData' = ProfileFor(logins[i].access)
    /\ isLoggedIn' = TRUE
    /\ Render(TRUE, showRegister, loginForm, RemoveAt(logins, i), regForm, regs)
    /\ lastDone' = [ kind |-> "login", outcome |-> "ok",
                     pre |-> logins[i].pre, access |-> logins[i].access,
                     profile |-> ProfileFor(logins[i].access),
                     live |-> logins[i].live, error |-> loginForm.error,
                     nLoginUser |-> logins[i].nLoginUser,
                     nGetCurrentUser |-> logins[i].nGetCurrentUser,
                     post |-> [ token |-> authToken, loggedIn |-> isLoggedIn',
                                user |-> userData' ] ]
    /\ UNCHANGED << authToken, showRegister, appLoading, checkAuthPc, checkAuthSent, submits,
                    calls >>

\* handleLogin: the profile fetch fails; the catch block only logs
GetCurrentUserFail(i) ==
    /\ logins[i].phase = "getCurrentUser"
    /\ logins' = RemoveAt(logins, i)
    /\ lastDone' = [ kind |-> "login", outcome |-> "getCurrentUserFailed",
                     pre |-> logins[i].pre, access |-> logins[i].access,
                     profile |-> NoUser,
                     live |-> logins[i].live, error |-> loginForm.error,
                     nLoginUser |-> logins[i].nLoginUser,
                     nGetCurrentUser |-> logins[i].nGetCurrentUser,
                     post |-> Session ]
    /\ UNCHANGED << authToken, isLoggedIn, showRegister, userData, appLoading,
                    checkAuthPc, checkAuthSent, loginForm, regForm, regs, submits, calls >>

(***************************************************************************)
(* Register: the form fields, calculateProofOfWork and handleSubmit        *)
(***************************************************************************)
RegSetUsername(v) ==
    /\ RegisterMounted
    /\ regForm.username # v
    /\ regForm' = [ regForm EXCEPT !.username = v ]
    /\ UNCHANGED << authToken, isLoggedIn, showRegister, userData, appLoading,
                    checkAuthPc, checkAuthSent, loginForm, logins, regs, submits, calls, lastDone >>

RegSetPassword(v) ==
    /\ RegisterMounted
    /\ regForm.password # v
    /\ regForm' = [ regForm EXCEPT !.password = v ]
    /\ UNCHANGED << authToken, isLoggedIn, showRegister, userData, appLoading,
                    checkAuthPc, checkAuthSent, loginForm, logins, regs, submits, calls, lastDone >>

\* <button type="submit" disabled={loading}>
RegSubmitDisabled == regForm.loading

\* handleSubmit up to the await of api.getChallenge; both inputs are `required`
RegSubmit ==
    /\ RegisterMounted
    /\ ~RegSubmitDisabled
    /\ regForm.username # "" /\ regForm.password # ""
    /\ submits.login + submits.register < MaxSubmits
    /\ submits' = [ submits EXCEPT !.register = @ + 1 ]
    /\ calls' = [ calls EXCEPT !.getChallenge = @ + 1 ]
    /\ regForm' = [ regForm EXCEPT !.loading = TRUE, !.result = NoResult ]
    /\ regs' = Append(regs,
           [ phase |-> "getChallenge", live |-> TRUE,
             username |-> regForm.username, password |-> regForm.password,
             challenge |-> << >>, difficulty |-> 0, token |-> << >>,
             nonce |-> 0, hash |-> << >>,
             request |-> NoResult,
             nGetChallenge |-> 1, nDigest |-> 0, nRegisterUser |-> 0 ])
    /\ UNCHANGED << authToken, isLoggedIn, showRegister, userData, appLoading,
                    checkAuthPc, checkAuthSent, loginForm, logins, lastDone >>

\* faulty variant of InitialNonce: the search starts one too far
InitialNonceOffByOne == 0 + 1

\* let nonce = 0
InitialNonce == 0

\* nonce++
NextNonce(n) == n + 1

\* faulty variant of MeetsTarget: one zero more than the difficulty is required
MeetsTargetOneMore(hash, difficulty) == StartsWith(hash, Repeat0(difficulty + 1))

\* hash.startsWith('0'.repeat(difficulty))
MeetsTarget(hash, difficulty) == StartsWith(hash, Repeat0(difficulty))

\* faulty variant of PowResult: the nonce is incremented once more before it is returned
PowResultNextNonce(n, hash) == [ nonce |-> NumberToString(n + 1), hash |-> hash ]

\* return { nonce: nonce.toString(), hash: hash }
PowResult(n, hash) == [ nonce |-> NumberToString(n), hash |-> hash ]

\* faulty variant of RegistrationRequest: the token is kept outside the handler
\* run, so every request carries the token of the oldest attempt in flight
RegistrationRequestSharedToken(att, pow) ==
    [ userData |-> [ username |-> att.username, password |-> att.password,
                     nonce |-> pow.nonce, hash |-> pow.hash, active |-> FALSE ],
      token |-> regs[1].token ]

\* the userData object of handleSubmit and the token, as passed to api.registerUser
RegistrationRequest(att, pow) ==
    [ userData |-> [ username |-> att.username, password |-> att.password,
                     nonce |-> pow.nonce, hash |-> pow.hash, active |-> FALSE ],
      token |-> att.token ]

\* faulty variant of GetChallengeOk: the nonce counter is shared between solver
\* runs, so a run that starts while another is in flight starts further on
GetChallengeOkSharedNonce(i, c, d) ==
    /\ regs[i].phase = "getChallenge"
    /\ regs' = [ regs EXCEPT ![i] =
           [ @ EXCEPT !.phase = "digest", !.challenge = c, !.difficulty = d,
                      !.token = IssuedToken(c), !.nonce = i - 1,
                      !.hash = << >> ] ]
    /\ UNCHANGED << authToken, isLoggedIn, showRegister, userData, appLoading,
                    checkAuthPc, checkAuthSent, loginForm, logins, regForm, submits, calls,
                    lastDone >>

\* the Challenge Service answers { challenge, difficulty, token };
\* calculateProofOfWork runs up to its first await of the digest
GetChallengeOk(i, c, d) ==
    /\ regs[i].phase = "getChallenge"
    /\ regs' = [ regs EXCEPT ![i] =
           [ @ EXCEPT !.phase = "digest", !.challenge = c, !.difficulty = d,
                      !.token = IssuedToken(c), !.nonce = InitialNonce,
                      !.hash = << >> ] ]
    /\ UNCHANGED << authToken, isLoggedIn, showRegister, userData, appLoading,
                    checkAuthPc, checkAuthSent, loginForm, logins, regForm, submits, calls,
                    lastDone >>

\* one turn of the while loop: the digest of the current nonce arrives; either
\* the loop goes on with the next nonce, or it breaks, calculateProofOfWork
\* returns and handleSubmit calls api.registerUser
DigestStep(i) ==
    /\ regs[i].phase = "digest"
    /\ LET att == regs[i]
           hash == SubtleDigest(att.challenge, att.nonce)
       IN  IF MeetsTarget(hash, att.difficulty)
           THEN /\ regs' = [ regs EXCEPT ![i] =
                       [ att EXCEPT !.phase = "registerUser", !.hash = hash,
                                    !.nDigest = @ + 1,
                                    !.request = RegistrationRequest(att,
                                                    PowResult(att.nonce, hash)),
                                    !.nRegisterUser = @ + 1 ] ]
                /\ calls' = [ calls EXCEPT !.registerUser = @ + 1 ]
           ELSE /\ NextNonce(att.nonce) <= MaxNonce
                /\ regs' = [ regs EXCEPT ![i] =
                       [ att EXCEPT !.hash = hash, !.nDigest = @ + 1,
                                    !.nonce = NextNonce(att.nonce) ] ]
                /\ UNCHANGED calls
    /\ UNCHANGED << authToken, isLoggedIn, showRegister, userData, appLoading,
                    checkAuthPc, checkAuthSent, loginForm, logins, regForm, submits, lastDone >>

\* faulty variant of RegisterErrorMessage: the server's detail is never shown
RegisterErrorAlwaysFallback(detail) == "Registration failed. Please try again."

\* faulty variant of RegisterErrorMessage: no fallback text
RegisterErrorDetailOnly(detail) == IF detail = NoDetail THEN "" ELSE detail

\* error.response?.data?.detail || "Registration failed. Please try again."
RegisterErrorMessage(detail) ==
    IF detail \notin { NoDetail, "" } THEN detail
    ELSE "Registration failed. Please try again."

\* faulty variant of RegFinish: setLoading(false) at the end of the try block
\* instead of in finally
RegFinishNoFinally(i, outcome, detail, result) ==
    /\ regForm' = IF regs[i].live
                  THEN [ regForm EXCEPT !.result = result,
                                        !.loading = (outcome # "ok") ]
                  ELSE regForm
    /\ regs' = RemoveAt(regs, i)
    /\ lastDone' = [ kind |-> "register", outcome |-> outcome, result |-> result,
                     detail |-> detail, live |-> regs[i].live,
                     nGetChallenge |-> regs[i].nGetChallenge,
                     nDigest |-> regs[i].nDigest,
                     nRegisterUser |-> regs[i].nRegisterUser ]
    /\ UNCHANGED << authToken, isLoggedIn, showRegister, userData, appLoading,
                    checkAuthPc, checkAuthSent, loginForm, logins, submits, calls >>

\* the end of handleSubmit: setResult(result), and setLoading(false) in finally
RegFinish(i, outcome, detail, result) ==
    /\ regForm' = IF regs[i].live
                  THEN [ regForm EXCEPT !.result = result, !.loading = FALSE ]
                  ELSE regForm
    /\ regs' = RemoveAt(regs, i)
    /\ lastDone' = [ kind |-> "register", outcome |-> outcome, result |-> result,
                     detail |-> detail, live |-> regs[i].live,
                     nGetChallenge |-> regs[i].nGetChallenge,
                     nDigest |-> regs[i].nDigest,
                     nRegisterUser |-> regs[i].nRegisterUser ]
    /\ UNCHANGED << authToken, isLoggedIn, showRegister, userData, appLoading,
                    checkAuthPc, checkAuthSent, loginForm, logins, submits, calls >>

\* faulty variant of GetChallengeFail: the failed call is issued again
GetChallengeFailRetry(i, detail) ==
    /\ regs[i].phase = "getChallenge"
    /\ regs[i].nGetChallenge <= MaxSubmits
    /\ regs' = [ regs EXCEPT ![i] = [ @ EXCEPT !.nGetChallenge = @ + 1 ] ]
    /\ calls' = [ calls EXCEPT !.getChallenge = @ + 1 ]
    /\ UNCHANGED << authToken, isLoggedIn, showRegister, userData, appLoading,
                    checkAuthPc, checkAuthSent, loginForm, logins, regForm, submits, lastDone >>

\* the Challenge Service call fails: the catch block
GetChallengeFail(i, detail) ==
    /\ regs[i].phase = "getChallenge"
    /\ RegFinish(i, "getChallengeFailed", detail,
                 [ success |-> FALSE, message |-> RegisterErrorMessage(detail) ])

\* faulty variant of RegisterUserOk: a successful registration also stores a
\* session token
RegisterUserOkStoresToken(i) ==
    /\ regs[i].phase = "registerUser"
    /\ regForm' = IF regs[i].live
                  THEN [ regForm EXCEPT
                           !.result = [ success |-> TRUE,
                                        message |-> "Registration successful!" ],
                           !.loading = FALSE ]
                  ELSE regForm
    /\ regs' = RemoveAt(regs, i)
    /\ authToken' = "tokA"
    /\ lastDone' = [ kind |-> "register", outcome |-> "ok",
                     result |-> [ success |-> TRUE,
                                  message |-> "Registration successful!" ],
                     detail |-> NoDetail, live |-> regs[i].live,
                     nGetChallenge |-> regs[i].nGetChallenge,
                     nDigest |-> regs[i].nDigest,
                     nRegisterUser |-> regs[i].nRegisterUser ]
    /\ UNCHANGED << isLoggedIn, showRegister, userData, appLoading,
                    checkAuthPc, checkAuthSent, loginForm, logins, submits, calls >>

\* the Registration Service accepts the request
RegisterUserOk(i) ==
    /\ regs[i].phase = "registerUser"
    /\ RegFinish(i, "ok", NoDetail,
                 [ success |-> TRUE, message |-> "Registration successful!" ])

\* the Registration Service call fails: the catch block
RegisterUserFail(i, detail) ==
    /\ regs[i].phase = "registerUser"
    /\ RegFinish(i, "registerUserFailed", detail,
                 [ success |-> FALSE, message |-> RegisterErrorMessage(detail) ])

(***************************************************************************)
(* The system                                                              *)
(***************************************************************************)
vars == << authToken, isLoggedIn, showRegister, userData, appLoading,
           checkAuthPc, checkAuthSent, loginForm, logins, regForm, regs,
           submits, calls, lastDone >>

Next ==
    \/ CheckAuthStart
    \/ CheckAuthOk
    \/ CheckAuthFail
    \/ HandleLogout
    \/ \E b \in BOOLEAN : SetShowRegister(b)
    \/ \E v \in Names : LoginSetUsername(v)
    \/ \E v \in Passwords : LoginSetPassword(v)
    \/ LoginSubmit
    \/ \E i \in 1..Len(logins), tok \in AccessTokens : LoginUserOk(i, tok)
    \/ \E i \in 1..Len(logins), detail \in Details \cup { NoDetail } :
           LoginUserFail(i, detail)
    \/ \E i \in 1..Len(logins) : GetCurrentUserOk(i)
    \/ \E i \in 1..Len(logins) : GetCurrentUserFail(i)
    \/ \E v \in Names : RegSetUsername(v)
    \/ \E v \in Passwords : RegSetPassword(v)
    \/ RegSubmit
    \/ \E i \in 1..Len(regs), c \in Challenges, d \in 0..MaxDifficulty :
           GetChallengeOk(i, c, d)
    \/ \E i \in 1..Len(regs), detail \in Details \cup { NoDetail } :
           GetChallengeFail(i, detail)
    \/ \E i \in 1..Len(regs) : DigestStep(i)
    \/ \E i \in 1..Len(regs) : RegisterUserOk(i)
    \/ \E i \in 1..Len(regs), detail \in Details \cup { NoDetail } :
           RegisterUserFail(i, detail)

Spec == Init /\ [][Next]_vars

\* What the scheduling guarantees: the mount effect runs, a pending digest
\* promise resolves, and (the assumption of the termination claim) every call
\* to the Challenge, Registration and Session Service returns, with a result
\* or with a failure. Nothing is assumed about the user.
ServiceFairness ==
    /\ WF_vars(CheckAuthStart)
    /\ WF_vars(CheckAuthOk \/ CheckAuthFail)
    /\ WF_vars(\E i \in 1..Len(regs) :
                  \/ \E c \in Challenges, d \in 0..MaxDifficulty :
                         GetChallengeOk(i, c, d)
                  \/ \E detail \in Details \cup { NoDetail } :
                         GetChallengeFail(i, detail))
    /\ WF_vars(\E i \in 1..Len(regs) : DigestStep(i))
    /\ WF_vars(\E i \in 1..Len(regs) :
                  \/ RegisterUserOk(i)
                  \/ \E detail \in Details \cup { NoDetail } :
                         RegisterUserFail(i, detail))

\* The system without the Login form: the restore at startup, logout, the
\* view toggle and the Register form with its attempts. The Login handlers
\* write no Register state; they can only unmount the form, as the view
\* toggle does.
NextRegistration ==
    \/ CheckAuthStart
    \/ CheckAuthOk
    \/ CheckAuthFail
    \/ HandleLogout
    \/ \E b \in BOOLEAN : SetShowRegister(b)
    \/ \E v \in Names : RegSetUsername(v)
    \/ \E v \in Passwords : RegSetPassword(v)
    \/ (submits.register < MaxLiveSubmits /\ RegSubmit)
    \/ \E i \in 1..Len(regs), c \in Challenges, d \in 0..MaxDifficulty :
           GetChallengeOk(i, c, d)
    \/ \E i \in 1..Len(regs), detail \in Details \cup { NoDetail } :
           GetChallengeFail(i, detail)
    \/ \E i \in 1..Len(regs) : DigestStep(i)
    \/ \E i \in 1..Len(regs) : RegisterUserOk(i)
    \/ \E i \in 1..Len(regs), detail \in Details \cup { NoDetail } :
           RegisterUserFail(i, detail)

\* The session side of the system (restore, the Login form and its handlers,
\* the view toggle, the Logout button) together with direct calls of
\* handleLogout in any state, also while App is loading; the button alone
\* never makes a call from the Anonymous state.
NextSession ==
    \/ CheckAuthStart
    \/ CheckAuthOk
    \/ CheckAuthFail
    \/ HandleLogout
    \/ LogoutCall
    \/ \E b \in BOOLEAN : SetShowRegister(b)
    \/ \E v \in Names : LoginSetUsername(v)
    \/ \E v \in Passwords : LoginSetPassword(v)
    \/ LoginSubmit
    \/ \E i \in 1..Len(logins), tok \in AccessTokens : LoginUserOk(i, tok)
    \/ \E i \in 1..Len(logins), detail \in Details \cup { NoDetail } :
           LoginUserFail(i, detail)
    \/ \E i \in 1..Len(logins) : GetCurrentUserOk(i)
    \/ \E i \in 1..Len(logins) : GetCurrentUserFail(i)

LogoutSpec == Init /\ [][NextSession]_vars

LiveSpec == Init /\ [][NextRegistration]_vars /\ ServiceFairness

(***************************************************************************)
(* Properties                                                              *)
(***************************************************************************)
\* the first d characters of the hex string h are all '0'
HasLeadingZeros(h, d) == \A k \in 1..d : h[k] = "0"

InRegisterUser(i) == i \in 1..Len(regs) /\ regs[i].phase = "registerUser"

\* C1: the nonce calculateProofOfWork returns is the smallest n >= 0 whose
\* digest of challenge || n starts with `difficulty` zeros: the returned nonce
\* satisfies the predicate and no smaller nonce does.
C1_PowReturnsLeastNonce ==
    \A i \in 1..Len(regs) :
        InRegisterUser(i) =>
            \E n \in 0..MaxNonce :
                /\ regs[i].request.userData.nonce = NumberToString(n)
                /\ HasLeadingZeros(SubtleDigest(regs[i].challenge, n),
                                   regs[i].difficulty)
                /\ \A m \in 0..(n - 1) :
                       ~HasLeadingZeros(SubtleDigest(regs[i].challenge, m),
                                        regs[i].difficulty)

\* a solver run that returned after rejecting at least two nonces
C1_Witness ==
    \E i \in 1..Len(regs) :
        /\ InRegisterUser(i)
        /\ regs[i].difficulty >= 1
        /\ regs[i].request.userData.nonce = NumberToString(2)

\* C2: the hash of the registration request is the digest of the fetched
\* challenge and the returned nonce, it is the hash the solver ended with, and
\* the request's nonce is the decimal string of that nonce.
C2_RequestCarriesSolverDigest ==
    \A i \in 1..Len(regs) :
        InRegisterUser(i) =>
            /\ regs[i].request.userData.nonce = NumberToString(regs[i].nonce)
            /\ regs[i].request.userData.hash = regs[i].hash
            /\ regs[i].request.userData.hash =
                   SubtleDigest(regs[i].challenge, regs[i].nonce)

\* a request in flight whose solution is not the first nonce tried
C2_Witness ==
    \E i \in 1..Len(regs) :
        /\ InRegisterUser(i)
        /\ regs[i].nonce > 0
        /\ Len(regs[i].request.userData.hash) = 64

LoginDone(outcomes) == lastDone.kind = "login" /\ lastDone.outcome \in outcomes

\* C3: a login whose Login Service call and profile fetch both succeed ends
\* Authenticated with the fetched profile, and the persisted token is the
\* access_token the Login Service returned to it.
C3_LoginOkEndsAuthenticated ==
    LoginDone({ "ok" }) =>
        /\ lastDone.post.loggedIn
        /\ lastDone.post.user = lastDone.profile
        /\ lastDone.post.token = lastDone.access

\* C4: a login that fails at either step leaves the session state and the
\* persisted token as they were when it was triggered, and sets an error
\* message (on the Login form that triggered it, while that form is shown).
C4_LoginFailureLeavesSession ==
    (LoginDone({ "loginUserFailed", "getCurrentUserFailed" }) /\ lastDone.live) =>
        /\ lastDone.post = lastDone.pre
        /\ lastDone.error # ""

\* C5: a restore whose profile fetch is rejected ends Anonymous with the
\* persisted token removed.
C5_RejectedRestoreClearsToken ==
    (lastDone.kind = "restore" /\ lastDone.outcome = "rejected") =>
        /\ lastDone.post.token = NoToken
        /\ ~lastDone.post.loggedIn
        /\ lastDone.post.user = NoUser

\* a restore that found a token in storage and had it rejected
C5_Witness ==
    /\ lastDone.kind = "restore"
    /\ lastDone.outcome = "rejected"
    /\ lastDone.pre.token # NoToken

\* C6: whenever no session token is persisted, the session state is Anonymous.
C6_NoTokenMeansAnonymous == authToken = NoToken => ~isLoggedIn

AuthInFlight == Len(logins) + (IF checkAuthPc = "await" THEN 1 ELSE 0)

\* C7: at most one auth operation (restore, login, logout) is in flight at any
\* time.
C7_OneAuthOperationInFlight == AuthInFlight <= 1

\* C8: at no time are two registration attempts in flight together.
C8_OneRegistrationInFlight == Len(regs) <= 1

RegisterDone(outcomes) == lastDone.kind = "register" /\ lastDone.outcome \in outcomes

\* C9: a registration attempt whose Challenge Service call fails ends in Failed
\* with a non-empty message, without a Registration Service call and without
\* a solver run.
C9_ChallengeFailureEndsFailed ==
    RegisterDone({ "getChallengeFailed" }) =>
        /\ lastDone.result.success = FALSE
        /\ lastDone.result.message # ""
        /\ lastDone.nRegisterUser = 0
        /\ lastDone.nDigest = 0

\* an attempt that ended on a failed Challenge Service call, shown on the form
C9_Witness ==
    /\ RegisterDone({ "getChallengeFailed" })
    /\ lastDone.live
    /\ regForm.result = lastDone.result

\* C10: no automatic retries: every service call belongs to one user-triggered
\* attempt, and an attempt calls each service at most once.
C10_NoAutomaticRetries ==
    /\ calls.getChallenge <= submits.register
    /\ calls.registerUser <= calls.getChallenge
    /\ calls.loginUser <= submits.login
    /\ calls.getCurrentUser <= calls.loginUser + 1
    /\ \A i \in 1..Len(regs) :
           regs[i].nGetChallenge <= 1 /\ regs[i].nRegisterUser <= 1
    /\ \A i \in 1..Len(logins) :
           logins[i].nLoginUser <= 1 /\ logins[i].nGetCurrentUser <= 1
    /\ lastDone.kind = "register" =>
           lastDone.nGetChallenge <= 1 /\ lastDone.nRegisterUser <= 1
    /\ lastDone.kind = "login" =>
           lastDone.nLoginUser <= 1 /\ lastDone.nGetCurrentUser <= 1
    /\ lastDone.kind = "restore" => lastDone.calls <= 1

\* a failed attempt after which nothing is in flight and no call was repeated
C10_Witness ==
    /\ RegisterDone({ "getChallengeFailed", "registerUserFailed" })
    /\ regs = << >> /\ logins = << >>
    /\ submits.register = 1
    /\ calls.getChallenge = 1

\* the state logout() leaves: Anonymous, no persisted token, no profile
AnonymousSession == [ token |-> NoToken, loggedIn |-> FALSE, user |-> NoUser ]

\* C11: every call of handleLogout, from whatever state, ends in the Anonymous
\* state with no persisted token and no profile, calls no service and starts
\* no handler run; and a call made in that state (the second of two calls in
\* sequence) leaves the session, the forms, the runs in flight and the call
\* counters exactly as they are.
C11_LogoutIsIdempotent ==
    [][ LogoutCall =>
          /\ SessionAfter = AnonymousSession
          /\ calls' = calls
          /\ Len(logins') = Len(logins)
          /\ Len(regs') = Len(regs)
          /\ Session = AnonymousSession =>
                 UNCHANGED << authToken, isLoggedIn, userData, showRegister,
                              appLoading, checkAuthPc, checkAuthSent, loginForm, logins,
                              regForm, regs, submits, calls >> ]_vars

\* two calls in sequence: the first logged an authenticated user out, the
\* second found the session as the first left it
C11_Witness ==
    /\ lastDone.kind = "logout"
    /\ lastDone.again
    /\ lastDone.pre = AnonymousSession
    /\ lastDone.post = AnonymousSession
    /\ calls.getCurrentUser > 0
    /\ LoginMounted

\* a step in which a registration attempt ends with one of the outcomes while
\* the form that started it is still shown
RegFinishesShown(outcomes) ==
    /\ Len(regs') = Len(regs) - 1
    /\ lastDone'.kind = "register"
    /\ lastDone'.outcome \in outcomes
    /\ lastDone'.live

\* C12: when the Registration Service accepts the request of an attempt whose
\* form is still shown, the form shows Success and the entered username and
\* password are cleared.
C12_SuccessClearsForm ==
    [][ RegFinishesShown({ "ok" }) =>
            /\ lastDone'.result.success
            /\ regForm'.username = ""
            /\ regForm'.password = "" ]_vars

\* C13: a failed registration attempt ends with success = false and a message
\* that is the server's detail string unchanged when the error response carries
\* a (non-empty) one, and the fixed fallback string otherwise; the message is
\* never empty.
C13_FailureMessageIsDetailOrFallback ==
    RegisterDone({ "getChallengeFailed", "registerUserFailed" }) =>
        /\ lastDone.result.success = FALSE
        /\ lastDone.detail \notin { NoDetail, "" } =>
               lastDone.result.message = lastDone.detail
        /\ lastDone.detail \in { NoDetail, "" } =>
               lastDone.result.message = "Registration failed. Please try again."
        /\ lastDone.result.message # ""

\* the Registration Service refused the request with a detail, which the form shows
C13_Witness ==
    /\ RegisterDone({ "registerUserFailed" })
    /\ lastDone.detail = "Username already registered"
    /\ lastDone.live
    /\ regForm.result = lastDone.result
    /\ ~regForm.loading

\* C14: two solver runs on the same (challenge, difficulty) return the same
\* nonce and the same digest, whatever else differs between the two attempts
\* and whether or not the runs overlap.
C14_SolverIsDeterministic ==
    \A i, j \in 1..Len(regs) :
        ( /\ InRegisterUser(i) /\ InRegisterUser(j)
          /\ regs[i].challenge = regs[j].challenge
          /\ regs[i].difficulty = regs[j].difficulty ) =>
            /\ regs[i].request.userData.nonce = regs[j].request.userData.nonce
            /\ regs[i].request.userData.hash = regs[j].request.userData.hash

\* two attempts that solved the same challenge, each after rejecting nonces
C14_Witness ==
    \E i, j \in 1..Len(regs) :
        /\ i # j
        /\ InRegisterUser(i) /\ InRegisterUser(j)
        /\ regs[i].challenge = regs[j].challenge
        /\ regs[i].difficulty = regs[j].difficulty
        /\ regs[i].difficulty >= 1
        /\ regs[i].nDigest > 1 /\ regs[j].nDigest > 1

\* C15: with difficulty 0 the solver returns nonce 0 for every challenge, after
\* exactly one digest computation.
C15_DifficultyZeroYieldsNonceZero ==
    \A i \in 1..Len(regs) :
        (InRegisterUser(i) /\ regs[i].difficulty = 0) =>
            /\ regs[i].request.userData.nonce = NumberToString(0)
            /\ regs[i].nonce = 0
            /\ regs[i].nDigest = 1

\* a difficulty-0 run on the challenge whose digest for nonce 0 has no leading zero
C15_Witness ==
    \E i \in 1..Len(regs) :
        /\ InRegisterUser(i)
        /\ regs[i].difficulty = 0
        /\ regs[i].challenge = ChallengeList[1]
        /\ ~HasLeadingZeros(regs[i].request.userData.hash, 1)

Phases(runs) == [ k \in 1..Len(runs) |-> runs[k].phase ]

\* what holds of an attempt in each phase: the calls made so far and, once the
\* Registration Service is called, the content of the request
PhaseInv(att) ==
    /\ att.nGetChallenge = 1
    /\ att.phase = "getChallenge" => (att.nDigest = 0 /\ att.nRegisterUser = 0)
    /\ att.phase = "digest" =>
           /\ att.nRegisterUser = 0
           /\ att.nDigest = att.nonce
           /\ att.token = IssuedToken(att.challenge)
    /\ att.phase = "registerUser" =>
           /\ att.nRegisterUser = 1
           /\ att.nDigest = att.nonce + 1
           /\ att.request.token = IssuedToken(att.challenge)
           /\ att.request.userData.username = att.username
           /\ att.request.userData.password = att.password
           /\ att.request.userData.active = FALSE
           /\ att.request.userData.nonce = NumberToString(att.nonce)
           /\ att.request.userData.hash = SubtleDigest(att.challenge, att.nonce)
           /\ HasLeadingZeros(att.request.userData.hash, att.difficulty)

\* the steps an attempt may take: start in FetchingChallenge from an idle form,
\* FetchingChallenge -> Solving -> Submitting, and the end (Success or Failed)
\* from FetchingChallenge (Failed only) or from Submitting; the form that
\* started the attempt is idle again after the end
PhaseStep ==
    LET n == Len(regs)
        m == Len(regs')
    IN  \/ /\ m = n
           /\ \A i \in 1..n :
                  << regs[i].phase, regs'[i].phase >> \in
                      { << "getChallenge", "getChallenge" >>,
                        << "getChallenge", "digest" >>,
                        << "digest", "digest" >>,
                        << "digest", "registerUser" >>,
                        << "registerUser", "registerUser" >> }
        \/ /\ m = n + 1
           /\ Phases(regs') = Append(Phases(regs), "getChallenge")
           /\ ~regForm.loading /\ regForm'.loading
           /\ regs'[m].live
        \/ /\ m = n - 1
           /\ lastDone'.kind = "register"
           /\ \E i \in 1..n :
                  /\ Phases(regs') = Phases(RemoveAt(regs, i))
                  /\ \/ /\ regs[i].phase = "getChallenge"
                        /\ lastDone'.outcome = "getChallengeFailed"
                     \/ /\ regs[i].phase = "registerUser"
                        /\ lastDone'.outcome \in { "ok", "registerUserFailed" }
           /\ lastDone'.live => ~regForm'.loading

\* C16: every registration attempt goes Idle, FetchingChallenge, Solving,
\* Submitting, Success or Failed, Idle, in this order; the Registration Service
\* is called only after the Challenge Service answered and the solver returned,
\* with the token and the solution of the challenge fetched in that attempt.
C16_PhasesInOrder ==
    /\ [](\A i \in 1..Len(regs) : PhaseInv(regs[i]))
    /\ [][PhaseStep]_vars

\* two attempts with different challenges, both calling the Registration Service
C16_Witness ==
    \E i, j \in 1..Len(regs) :
        /\ InRegisterUser(i) /\ InRegisterUser(j)
        /\ regs[i].challenge # regs[j].challenge
        /\ regs[i].request.token # regs[j].request.token

\* C17: after handleLogout, and until the user submits the Login form again,
\* the persisted token stays absent and the state stays Anonymous: no response
\* of a login started before the logout writes the token or sets Authenticated.
C17_LogoutStaysAnonymous ==
    [][ ( /\ lastDone.kind = "logout"
          /\ submits.login = lastDone.loginSubmits
          /\ submits'.login = submits.login ) =>
            (authToken' = NoToken /\ ~isLoggedIn') ]_vars

\* C18: under ServiceFairness, with challenges that have a solution among the
\* nonces followed, every registration attempt eventually ends, a Register
\* form that is loading eventually is not, and the restore at startup
\* eventually clears the loading state of App.
C18_RegistrationAndRestoreTerminate ==
    /\ (Len(regs) > 0) ~> (Len(regs) = 0)
    /\ regForm.loading ~> ~regForm.loading
    /\ appLoading ~> ~appLoading

\* an attempt that ended in Failed after its solver ran, with the form enabled again
C18_Witness ==
    /\ RegisterDone({ "registerUserFailed" })
    /\ lastDone.live
    /\ lastDone.nDigest > 1
    /\ regForm.result = lastDone.result
    /\ ~regForm.loading
    /\ ~appLoading
    /\ regs = << >>

\* C19: a restore that finds no persisted token ends Anonymous without a
\* Session Service call; a restore whose token the Session Service accepts ends
\* Authenticated with the returned profile and the persisted token unchanged.
C19_RestoreWithoutOrWithAcceptedToken ==
    lastDone.kind = "restore" =>
        /\ lastDone.outcome = "noToken" =>
               /\ lastDone.pre.token = NoToken
               /\ lastDone.post = AnonymousSession
               /\ lastDone.calls = 0
               /\ calls.getCurrentUser <= calls.loginUser
        /\ lastDone.outcome = "ok" =>
               /\ lastDone.pre.token # NoToken
               /\ lastDone.post.loggedIn
               /\ lastDone.post.user = ProfileFor(lastDone.pre.token)
               /\ lastDone.post.token = lastDone.pre.token
               /\ lastDone.calls = 1

\* a restore that found a token, had it accepted and shows the profile
C19_Witness ==
    /\ lastDone.kind = "restore"
    /\ lastDone.outcome = "ok"
    /\ lastDone.pre.token = "tokA"
    /\ authToken = "tokA"
    /\ isLoggedIn
    /\ userData = ProfileFor("tokA")
    /\ ~appLoading

\* how far each attempt in flight has come
RegProgress(runs) == [ k \in 1..Len(runs) |-> << runs[k].phase, runs[k].nonce >> ]

\* C20: no step of a registration attempt (its start, the challenge response,
\* a turn of the solver loop, the call of the Registration Service, its end in
\* Success or Failed) changes the persisted session token or the session
\* state; a successful registration does not log the user in.
C20_RegistrationLeavesSession ==
    [][ RegProgress(regs') # RegProgress(regs) =>
            /\ authToken' = authToken
            /\ isLoggedIn' = isLoggedIn
            /\ userData' = userData ]_vars

\* a registration that succeeded while a session token was stored and the user
\* was not logged in: both are as they were
C20_Witness ==
    /\ RegisterDone({ "ok" })
    /\ lastDone.live
    /\ authToken # NoToken
    /\ ~isLoggedIn
    /\ userData = NoUser

====
